---------------------------- MODULE Spec2Model ----------------------------
(***************************************************************************)
(* collector.py: fetch proxy descriptors from a list of sources, extract  *)
(* them with a regular expression, score them, keep the best one per      *)
(* identity and write the list.                                            *)
(*                                                                         *)
(* Text is a sequence of characters, each character a one-character        *)
(* string, so that the regular expression, the Base64 decoder and the URL  *)
(* parser work on characters as the Python code does.  The characters of   *)
(* the model are ASCII; a byte above 127 coming out of the Base64 decoder  *)
(* is decoded as UTF-8 and named by its code point ("U+233").              *)
(***************************************************************************)
EXTENDS Integers, Sequences, FiniteSets, TLC

(***************************************************************************)
(* Bounds of the model.                                                    *)
(***************************************************************************)
MaxSources == 2
MaxConfigs == 3
MaxParams == 3

(***************************************************************************)
(* Text helpers (Python str operations).                                   *)
(***************************************************************************)
Range(s) == {s[k] : k \in 1..Len(s)}

\* s[from:] with from counted from 1
Tail1(s, from) == SubSeq(s, from, Len(s))

\* s.startswith(p)
StartsWith(s, p) == Len(p) <= Len(s) /\ \A j \in 1..Len(p) : s[j] = p[j]

\* p occurs in s at position k
OccursAt(s, p, k) ==
    /\ k >= 1
    /\ k + Len(p) - 1 <= Len(s)
    /\ \A j \in 1..Len(p) : s[k + j - 1] = p[j]

\* Where p occurs in s
Occurrences(s, p) ==
    IF Len(p) = 1 THEN {k \in 1..Len(s) : s[k] = p[1]}
    ELSE {k \in 1..(Len(s) - Len(p) + 1) : OccursAt(s, p, k)}

\* p in s
Contains(s, p) == \E k \in 1..(Len(s) - Len(p) + 1) : OccursAt(s, p, k)

\* s.find(p) counted from 1; 0 when p does not occur
Find(s, p) ==
    LET occ == Occurrences(s, p)
    IN  IF occ = {} THEN 0 ELSE CHOOSE k \in occ : \A j \in occ : k <= j

\* s.rfind(p) counted from 1; 0 when p does not occur
RFind(s, p) ==
    LET occ == Occurrences(s, p)
    IN  IF occ = {} THEN 0 ELSE CHOOSE k \in occ : \A j \in occ : j <= k

\* s.partition(p)[0] and s.partition(p)[2]
Before(s, p) ==
    LET k == Find(s, p) IN IF k = 0 THEN s ELSE SubSeq(s, 1, k - 1)

After(s, p) ==
    LET k == Find(s, p) IN IF k = 0 THEN <<>> ELSE Tail1(s, k + Len(p))

\* s.rpartition(p)[2]
AfterLast(s, p) ==
    LET k == RFind(s, p) IN IF k = 0 THEN s ELSE Tail1(s, k + Len(p))

\* s.split(p) for a one-character separator p
RECURSIVE Split(_, _)
Split(s, p) ==
    LET k == Find(s, p)
    IN  IF k = 0 THEN <<s>>
        ELSE <<SubSeq(s, 1, k - 1)>> \o Split(Tail1(s, k + Len(p)), p)

\* sep.join(parts)
RECURSIVE Join(_, _)
Join(parts, sep) ==
    IF parts = <<>> THEN <<>>
    ELSE IF Len(parts) = 1 THEN parts[1]
    ELSE parts[1] \o sep \o Join(Tail(parts), sep)

Digits == {"0", "1", "2", "3", "4", "5", "6", "7", "8", "9"}

DigitSeq == <<"0", "1", "2", "3", "4", "5", "6", "7", "8", "9">>

DigitVal(c) == (CHOOSE k \in 1..10 : DigitSeq[k] = c) - 1

\* int(s) for a string of ASCII digits
RECURSIVE ToInt(_)
ToInt(s) ==
    IF s = <<>> THEN 0
    ELSE 10 * ToInt(SubSeq(s, 1, Len(s) - 1)) + DigitVal(s[Len(s)])

UpperSeq ==
    <<"A", "B", "C", "D", "E", "F", "G", "H", "I", "J", "K", "L", "M",
      "N", "O", "P", "Q", "R", "S", "T", "U", "V", "W", "X", "Y", "Z">>

LowerSeq ==
    <<"a", "b", "c", "d", "e", "f", "g", "h", "i", "j", "k", "l", "m",
      "n", "o", "p", "q", "r", "s", "t", "u", "v", "w", "x", "y", "z">>

\* s.lower() on ASCII letters
Lower(s) ==
    [k \in 1..Len(s) |->
        IF s[k] \in Range(UpperSeq)
        THEN LowerSeq[CHOOSE j \in 1..26 : UpperSeq[j] = s[k]]
        ELSE s[k]]

\* The printable ASCII characters, code 32 first (the grave accent, which a
\* TLA+ string cannot hold, is named by its code point).
Printable ==
    <<" ", "!", "\"", "#", "$", "%", "&", "'", "(", ")", "*", "+", ",", "-",
      ".", "/", "0", "1", "2", "3", "4", "5", "6", "7", "8", "9", ":", ";",
      "<", "=", ">", "?", "@", "A", "B", "C", "D", "E", "F", "G", "H", "I",
      "J", "K", "L", "M", "N", "O", "P", "Q", "R", "S", "T", "U", "V", "W",
      "X", "Y", "Z", "[", "\\", "]", "^", "_", "U+96", "a", "b", "c", "d", "e",
      "f", "g", "h", "i", "j", "k", "l", "m", "n", "o", "p", "q", "r", "s",
      "t", "u", "v", "w", "x", "y", "z", "{", "|", "}", "~">>

\* chr(cp): printable ASCII as itself, the rest named by its code point
Chr(cp) ==
    IF cp \in 32..126 THEN Printable[cp - 31]
    ELSE IF cp = 9 THEN "\t"
    ELSE IF cp = 10 THEN "\n"
    ELSE IF cp = 13 THEN "\r"
    ELSE IF cp = 12 THEN "\f"
    ELSE "U+" \o ToString(cp)

\* The characters the pattern's \s matches (str.isspace).
WhitespaceCodes ==
    {9, 10, 11, 12, 13, 28, 29, 30, 31, 32, 133, 160, 5760, 8232, 8233, 8239,
     8287, 12288} \cup (8192..8202)

Whitespace == {Chr(cp) : cp \in WhitespaceCodes}

\* The characters the pattern's class [^\s'"<>] excludes.
ClassExcluded == Whitespace \cup {"'", "\"", "<", ">"}

(***************************************************************************)
(* decode_base64_content: base64.b64decode of the padded text, then        *)
(* bytes.decode('utf-8'); any exception gives the empty text.              *)
(***************************************************************************)
B64Alphabet ==
    <<"A", "B", "C", "D", "E", "F", "G", "H", "I", "J", "K", "L", "M",
      "N", "O", "P", "Q", "R", "S", "T", "U", "V", "W", "X", "Y", "Z",
      "a", "b", "c", "d", "e", "f", "g", "h", "i", "j", "k", "l", "m",
      "n", "o", "p", "q", "r", "s", "t", "u", "v", "w", "x", "y", "z",
      "0", "1", "2", "3", "4", "5", "6", "7", "8", "9", "+", "/">>

B64Chars == Range(B64Alphabet)

B64Val(c) == (CHOOSE k \in 1..64 : B64Alphabet[k] = c) - 1

\* The characters str.encode('ascii') accepts.
AsciiChars == {Chr(cp) : cp \in 0..127}

\* A failed decoding (the exception the code catches).
DecodeError == [ok |-> FALSE, bytes |-> <<>>]

\* binascii.a2b_base64 in its default, non-strict mode, which reads the data
\* one character at a time: a character outside the alphabet is skipped; an
\* alphabet character resets the pad count and advances the position in the
\* group of four (quad_pos); a '=' met at quad_pos >= 2 counts as a pad, and
\* ends the input once quad_pos + pads >= 4; a group left incomplete at the
\* end is an error.  The loop is written here position by position.
DataBefore(data, k) == {j \in 1..(k - 1) : data[j] \in B64Chars}

QuadPos(data, k) == Cardinality(DataBefore(data, k)) % 4

\* The pads counted when the '=' at k has been read.
PadsAt(data, k) ==
    LET before == DataBefore(data, k)
        last == IF before = {} THEN 0
                ELSE CHOOSE j \in before : \A i \in before : i <= j
    IN  Cardinality({j \in (last + 1)..k : data[j] = "="})

\* Where the loop leaves through "goto done"; 0 when it reads to the end.
StopAt(data) ==
    LET stops == {k \in 1..Len(data) :
                     /\ data[k] = "="
                     /\ QuadPos(data, k) >= 2
                     /\ QuadPos(data, k) + PadsAt(data, k) >= 4}
    IN  IF stops = {} THEN 0
        ELSE CHOOSE k \in stops : \A i \in stops : k <= i

\* data without the characters the loop skips
SelectData(data) == SelectSeq(data, LAMBDA c : c \in B64Chars)

A2B(data) ==
    LET stop == StopAt(data)
        read == IF stop = 0 THEN data ELSE SubSeq(data, 1, stop - 1)
        v == [k \in 1..Len(SelectData(read)) |-> B64Val(SelectData(read)[k])]
        quad_pos == Len(v) % 4
        nbytes == 3 * (Len(v) \div 4)
                      + (IF quad_pos = 0 THEN 0 ELSE quad_pos - 1)
        byte(j) ==
            LET g == 4 * ((j - 1) \div 3)
                r == (j - 1) % 3
            IN  CASE r = 0 -> v[g + 1] * 4 + (v[g + 2] \div 16)
                  [] r = 1 -> (v[g + 2] % 16) * 16 + (v[g + 3] \div 4)
                  [] r = 2 -> (v[g + 3] % 4) * 64 + v[g + 4]
    IN  IF stop = 0 /\ quad_pos # 0 THEN DecodeError
        ELSE [ok |-> TRUE, bytes |-> [j \in 1..nbytes |-> byte(j)]]

\* base64.b64decode(s) for a str s: s.encode('ascii'), then a2b_base64
b64decode(s) ==
    IF \E k \in 1..Len(s) : s[k] \notin AsciiChars THEN DecodeError
    ELSE A2B(s)

IsCont(b, lo, hi) == b >= lo /\ b <= hi

\* bytes.decode('utf-8'), strict: the text, or a failure on a byte sequence
\* that is not well-formed UTF-8.
RECURSIVE Utf8(_, _, _)
Utf8(bytes, k, out) ==
    IF \A j \in k..Len(bytes) : bytes[j] < 128
    THEN [ok |-> TRUE,
          text |-> out \o [j \in 1..(Len(bytes) - k + 1) |-> Chr(bytes[k + j - 1])]]
    ELSE IF bytes[k] < 128
    THEN LET e == CHOOSE i \in k..Len(bytes) :
                      bytes[i] >= 128 /\ \A j \in k..(i - 1) : bytes[j] < 128
         IN  Utf8(bytes, e, out \o [j \in 1..(e - k) |-> Chr(bytes[k + j - 1])])
    ELSE LET b == bytes[k]
             n == Len(bytes) - k
             b1 == IF n >= 1 THEN bytes[k + 1] ELSE 0
             b2 == IF n >= 2 THEN bytes[k + 2] ELSE 0
             b3 == IF n >= 3 THEN bytes[k + 3] ELSE 0
             bad == [ok |-> FALSE, text |-> <<>>]
         IN
         IF b \in 194..223
         THEN IF n >= 1 /\ IsCont(b1, 128, 191)
              THEN Utf8(bytes, k + 2,
                        Append(out, Chr((b - 192) * 64 + (b1 - 128))))
              ELSE bad
         ELSE IF b \in 224..239
         THEN IF /\ n >= 2
                 /\ IsCont(b1, IF b = 224 THEN 160 ELSE 128,
                               IF b = 237 THEN 159 ELSE 191)
                 /\ IsCont(b2, 128, 191)
              THEN Utf8(bytes, k + 3,
                        Append(out, Chr((b - 224) * 4096 + (b1 - 128) * 64
                                        + (b2 - 128))))
              ELSE bad
         ELSE IF b \in 240..244
         THEN IF /\ n >= 3
                 /\ IsCont(b1, IF b = 240 THEN 144 ELSE 128,
                               IF b = 244 THEN 143 ELSE 191)
                 /\ IsCont(b2, 128, 191)
                 /\ IsCont(b3, 128, 191)
              THEN Utf8(bytes, k + 4,
                        Append(out, Chr((b - 240) * 262144 + (b1 - 128) * 4096
                                        + (b2 - 128) * 64 + (b3 - 128))))
              ELSE bad
         ELSE bad

\* '=' * (-len(encoded_content) % 4)
Pad(n) == [k \in 1..n |-> "="]

decode_base64_content(encoded_content) ==
    LET padded_content ==
            encoded_content \o Pad((4 - (Len(encoded_content) % 4)) % 4)
        raw == b64decode(padded_content)
        decoded == IF raw.ok THEN Utf8(raw.bytes, 1, <<>>)
                   ELSE [ok |-> FALSE, text |-> <<>>]
    IN  IF decoded.ok THEN decoded.text ELSE <<>>

(***************************************************************************)
(* The extraction of get_configs_from_sources:                             *)
(*   re.findall(r'(vless|vmess)://[^\s\'"<>]+', content)                   *)
(***************************************************************************)
\* vless://
VlessPrefix == <<"v", "l", "e", "s", "s", ":", "/", "/">>

\* vmess://
VmessPrefix == <<"v", "m", "e", "s", "s", ":", "/", "/">>

\* The end of the maximal run of class characters that starts at k.
RunEnd(content, k) ==
    LET stops == {j \in k..Len(content) : content[j] \in ClassExcluded}
    IN  IF stops = {} THEN Len(content)
        ELSE (CHOOSE j \in stops : \A i \in stops : j <= i) - 1

\* The end of the pattern's match that starts at pos; 0 when none does.
MatchEnd(content, pos) ==
    IF /\ (OccursAt(content, VlessPrefix, pos) \/ OccursAt(content, VmessPrefix, pos))
       /\ pos + 8 <= Len(content)
       /\ content[pos + 8] \notin ClassExcluded
    THEN RunEnd(content, pos + 8)
    ELSE 0

\* The non-overlapping matches, scanned left to right: the leftmost match
\* at or after pos, then the scan resumes behind its end.
RECURSIVE ScanFrom(_, _)
ScanFrom(content, pos) ==
    LET starts == {k \in pos..Len(content) : MatchEnd(content, k) # 0}
    IN  IF starts = {} THEN <<>>
        ELSE LET k == CHOOSE i \in starts : \A j \in starts : i <= j
             IN  <<[start |-> k, end |-> MatchEnd(content, k)]>>
                     \o ScanFrom(content, MatchEnd(content, k) + 1)

\* What each match spans: m.group(0).
Group0(content, m) == SubSeq(content, m.start, m.end)

\* The pattern's one capturing group: m.group(1), the scheme name.
Group1(content, m) == SubSeq(content, m.start, m.start + 4)

\* re.findall with a pattern of exactly one group returns the group of each
\* match, not the match.
findall(content) ==
    LET ms == ScanFrom(content, 1)
    IN  [k \in 1..Len(ms) |-> Group1(content, ms[k])]

\* The content after the Base64 heuristic of lines 31-32.
Decoded(text) ==
    IF ~Contains(text, VmessPrefix) /\ ~Contains(text, VlessPrefix)
    THEN decode_base64_content(text)
    ELSE text

(***************************************************************************)
(* urllib.parse as score_and_filter_config uses it: urlparse(config) and   *)
(* parse_qs(parsed_url.query), on ASCII text.                              *)
(***************************************************************************)
Letters == Range(UpperSeq) \cup Range(LowerSeq)

SchemeChars == Letters \cup Digits \cup {"+", "-", "."}

HexSeq == <<"0", "1", "2", "3", "4", "5", "6", "7", "8", "9",
            "a", "b", "c", "d", "e", "f">>

HexChars == Range(HexSeq) \cup {"A", "B", "C", "D", "E", "F"}

HexVal(c) == (CHOOSE k \in 1..16 : HexSeq[k] = Lower(<<c>>)[1]) - 1

\* ipaddress.IPv6Address accepts h (an address without zone and without an
\* embedded IPv4 part): 3 to 9 colon-separated parts, each hextet of 1 to 4
\* hex digits, at most one "::", which stands for at least one hextet, and
\* eight hextets without it.
IsIPv6(h) ==
    LET parts == Split(h, <<":">>)
        n == Len(parts)
        inner == {k \in 2..(n - 1) : parts[k] = <<>>}
        hextets == {k \in 1..n : parts[k] # <<>>}
    IN  /\ n >= 3 /\ n <= 9
        /\ Cardinality(inner) <= 1
        /\ parts[1] = <<>> => parts[2] = <<>>
        /\ parts[n] = <<>> => parts[n - 1] = <<>>
        /\ \A k \in hextets :
               Len(parts[k]) <= 4 /\ Range(parts[k]) \subseteq HexChars
        /\ IF inner = {} THEN Cardinality(hextets) = 8 /\ n = 8
           ELSE Cardinality(hextets) <= 7

\* _check_bracketed_host raises nothing: an IPvFuture literal
\* (v<hex>+.<anything>) or an IPv6 address.
BracketedHostOk(h) ==
    IF StartsWith(h, <<"v">>)
    THEN LET hex == SubSeq(h, 2, Find(h, <<".">>) - 1)
         IN  /\ Find(h, <<".">>) > 2
             /\ Range(hex) \subseteq HexChars
             /\ Find(h, <<".">>) < Len(h)
    ELSE IsIPv6(h)

\* The first position at or after 3 of one of '/', '?', '#': where the
\* authority ends (_splitnetloc(url, 2)); Len(url) + 1 when none occurs.
NetlocEnd(url) ==
    LET delims == {k \in 3..Len(url) : url[k] \in {"/", "?", "#"}}
    IN  IF delims = {} THEN Len(url) + 1
        ELSE CHOOSE k \in delims : \A j \in delims : k <= j

ParseError == [ok |-> FALSE, netloc |-> <<>>, query |-> <<>>]

\* urlparse(url): the components the scorer reads, or the ValueError of a
\* malformed bracketed host.
urlparse(config) ==
    LET url0 == SelectSeq(config, LAMBDA c : c \notin {"\t", "\r", "\n"})
        i == Find(url0, <<":">>)
        hasScheme == /\ i > 1
                     /\ url0[1] \in Letters
                     /\ Range(SubSeq(url0, 1, i - 1)) \subseteq SchemeChars
        url == IF hasScheme THEN Tail1(url0, i + 1) ELSE url0
        hasNetloc == StartsWith(url, <<"/", "/">>)
        end == NetlocEnd(url)
        netloc == IF hasNetloc THEN SubSeq(url, 3, end - 1) ELSE <<>>
        rest == IF hasNetloc THEN Tail1(url, end) ELSE url
        noFragment == Before(rest, <<"#">>)
        query == After(noFragment, <<"?">>)
        open == "[" \in Range(netloc)
        close == "]" \in Range(netloc)
    IN  IF open # close THEN ParseError
        ELSE IF open /\ ~BracketedHostOk(Before(After(netloc, <<"[">>), <<"]">>))
        THEN ParseError
        ELSE [ok |-> TRUE, netloc |-> netloc, query |-> query]

\* _hostinfo: the host and port texts of the authority
HostInfo(netloc) ==
    LET hostinfo == AfterLast(netloc, <<"@">>)
    IN  IF "[" \in Range(hostinfo)
        THEN [hostname |-> Before(After(hostinfo, <<"[">>), <<"]">>),
              port |-> After(After(After(hostinfo, <<"[">>), <<"]">>), <<":">>)]
        ELSE [hostname |-> Before(hostinfo, <<":">>),
              port |-> After(hostinfo, <<":">>)]

MaxPort == 65535

NoPort == -1

\* parsed_url.port: the number, NoPort for None, or the ValueError of a port
\* that is not a decimal number up to 65535.
Port(netloc) ==
    LET port == HostInfo(netloc).port
    IN  IF port = <<>> THEN [ok |-> TRUE, value |-> NoPort]
        ELSE IF Range(port) \subseteq Digits /\ ToInt(port) <= MaxPort
        THEN [ok |-> TRUE, value |-> ToInt(port)]
        ELSE [ok |-> FALSE, value |-> NoPort]

\* parsed_url.hostname: lower-cased up to a '%'; the empty text for None
Hostname(netloc) ==
    LET hostname == HostInfo(netloc).hostname
        k == Find(hostname, <<"%">>)
    IN  IF k = 0 THEN Lower(hostname)
        ELSE Lower(SubSeq(hostname, 1, k - 1)) \o Tail1(hostname, k)

\* unquote on text whose %xx escapes are of ASCII bytes; an escape of a byte
\* above 127 decodes to U+FFFD, as a lone such byte does.
RECURSIVE unquote(_)
unquote(s) ==
    LET escapes == {k \in 1..(Len(s) - 2) :
                       s[k] = "%" /\ s[k + 1] \in HexChars /\ s[k + 2] \in HexChars}
    IN  IF escapes = {} THEN s
        ELSE LET k == CHOOSE i \in escapes : \A j \in escapes : i <= j
                 b == 16 * HexVal(s[k + 1]) + HexVal(s[k + 2])
             IN  SubSeq(s, 1, k - 1)
                     \o <<IF b < 128 THEN Chr(b) ELSE Chr(65533)>>
                     \o unquote(Tail1(s, k + 3))

PlusToSpace(s) == [k \in 1..Len(s) |-> IF s[k] = "+" THEN " " ELSE s[k]]

\* parse_qsl(query): the (name, value) pairs in order; a field without '='
\* or with an empty value is dropped (keep_blank_values is False).
parse_qsl(query) ==
    LET fields == IF query = <<>> THEN <<>> ELSE Split(query, <<"&">>)
        kept == SelectSeq(fields,
                    LAMBDA f : Find(f, <<"=">>) # 0 /\ After(f, <<"=">>) # <<>>)
    IN  [k \in 1..Len(kept) |->
            [name |-> unquote(PlusToSpace(Before(kept[k], <<"=">>))),
             value |-> unquote(PlusToSpace(After(kept[k], <<"=">>)))]]

\* key in parse_qs(query)
HasParam(params, key) == \E k \in 1..Len(params) : params[k].name = key

\* params.get(key, [''])[0]
GetFirst(params, key) ==
    IF HasParam(params, key)
    THEN params[CHOOSE k \in 1..Len(params) :
                    /\ params[k].name = key
                    /\ \A j \in 1..(k - 1) : params[j].name # key].value
    ELSE <<>>

(***************************************************************************)
(* score_and_filter_config                                                 *)
(***************************************************************************)
KeySecurity == <<"s", "e", "c", "u", "r", "i", "t", "y">>

KeyType == <<"t", "y", "p", "e">>

KeyServiceName == <<"s", "e", "r", "v", "i", "c", "e", "N", "a", "m", "e">>

KeyHost == <<"h", "o", "s", "t">>

KeySni == <<"s", "n", "i">>

Tls == <<"t", "l", "s">>

Ws == <<"w", "s">>

Grpc == <<"g", "r", "p", "c">>

DdnsNames ==
    {<<".", "d", "d", "n", "s", ".", "n", "e", "t">>,
     <<".", "x", "y", "z">>,
     <<".", "p", "w">>}

BaseScore == 10

StandardPort == 443

PortBonus == 10

DomainBonus == 20

SniBonus == 5

\* re.match(r'^\d{1,3}\.\d{1,3}\.\d{1,3}\.\d{1,3}$', hostname)
IsDottedQuad(hostname) ==
    LET parts == Split(hostname, <<".">>)
    IN  /\ Len(parts) = 4
        /\ \A k \in 1..4 :
               /\ Len(parts[k]) \in 1..3
               /\ Range(parts[k]) \subseteq Digits

\* PassesRejects with an absent type taken as an accepted default transport.
PassesRejects_DefaultTransport(params) ==
    LET transport == GetFirst(params, KeyType)
    IN  /\ GetFirst(params, KeySecurity) = Tls
        /\ transport \in {Ws, Grpc, <<>>}
        /\ ~(transport = Grpc /\ GetFirst(params, KeyServiceName) = <<>>)
        /\ ~(transport = Ws /\ GetFirst(params, KeyHost) = <<>>)

\* Lines 54-67: the descriptor passes every reject check.
PassesRejects(params) ==
    LET transport == GetFirst(params, KeyType)
    IN  /\ GetFirst(params, KeySecurity) = Tls
        /\ transport \in {Ws, Grpc}
        /\ ~(transport = Grpc /\ GetFirst(params, KeyServiceName) = <<>>)
        /\ ~(transport = Ws /\ GetFirst(params, KeyHost) = <<>>)

\* Points with the port bonus given to every descriptor that names a port.
Points_AnyPort(netloc, params, port) ==
    LET hostname == Hostname(netloc)
    IN  BaseScore
        + (IF port # NoPort THEN PortBonus ELSE 0)
        + (IF /\ hostname # <<>>
              /\ ~IsDottedQuad(hostname)
              /\ ~\E ddns \in DdnsNames : Contains(hostname, ddns)
           THEN DomainBonus ELSE 0)
        + (IF HasParam(params, KeySni) \/ HasParam(params, KeyHost)
           THEN SniBonus ELSE 0)

\* Lines 70-86: the score of a descriptor that passed, given its port.
Points(netloc, params, port) ==
    LET hostname == Hostname(netloc)
    IN  BaseScore
        + (IF port = StandardPort THEN PortBonus ELSE 0)
        + (IF /\ hostname # <<>>
              /\ ~IsDottedQuad(hostname)
              /\ ~\E ddns \in DdnsNames : Contains(hostname, ddns)
           THEN DomainBonus ELSE 0)
        + (IF HasParam(params, KeySni) \/ HasParam(params, KeyHost)
           THEN SniBonus ELSE 0)

\* Every exception raised inside the try block returns 0 (lines 88-89).
score_and_filter_config(config) ==
    IF ~StartsWith(config, VlessPrefix) THEN 0
    ELSE LET parsed_url == urlparse(config)
             params == parse_qsl(parsed_url.query)
             port == Port(parsed_url.netloc)
         IN  IF ~parsed_url.ok THEN 0
             ELSE IF ~PassesRejects(params) THEN 0
             ELSE IF ~port.ok THEN 0
             ELSE Points(parsed_url.netloc, params, port.value)

(***************************************************************************)
(* The texts the model's sources serve and the descriptors it ranks.       *)
(***************************************************************************)
\* vless://u@h:443?type=ws&security=tls&host=example.com
GoodWs ==
    <<"v", "l", "e", "s", "s", ":", "/", "/", "u", "@", "h", ":", "4", "4",
    "3", "?", "t", "y", "p", "e", "=", "w", "s", "&", "s", "e", "c", "u",
    "r", "i", "t", "y", "=", "t", "l", "s", "&", "h", "o", "s", "t", "=",
    "e", "x", "a", "m", "p", "l", "e", ".", "c", "o", "m">>

\* vless://w@g.io:443?type=grpc&security=tls&serviceName=s
GoodGrpc ==
    <<"v", "l", "e", "s", "s", ":", "/", "/", "w", "@", "g", ".", "i", "o",
    ":", "4", "4", "3", "?", "t", "y", "p", "e", "=", "g", "r", "p", "c",
    "&", "s", "e", "c", "u", "r", "i", "t", "y", "=", "t", "l", "s", "&",
    "s", "e", "r", "v", "i", "c", "e", "N", "a", "m", "e", "=", "s">>

\* vmess://abc
VmessDesc ==
    <<"v", "m", "e", "s", "s", ":", "/", "/", "a", "b", "c">>

\* vless://u@1.2.3.4:443?type=ws&security=tls&host=x
SameIdIp ==
    <<"v", "l", "e", "s", "s", ":", "/", "/", "u", "@", "1", ".", "2", ".",
    "3", ".", "4", ":", "4", "4", "3", "?", "t", "y", "p", "e", "=", "w",
    "s", "&", "s", "e", "c", "u", "r", "i", "t", "y", "=", "t", "l", "s",
    "&", "h", "o", "s", "t", "=", "x">>

\* vless://u@k.org:443?type=ws&security=tls&host=y
SameIdTie ==
    <<"v", "l", "e", "s", "s", ":", "/", "/", "u", "@", "k", ".", "o", "r",
    "g", ":", "4", "4", "3", "?", "t", "y", "p", "e", "=", "w", "s", "&",
    "s", "e", "c", "u", "r", "i", "t", "y", "=", "t", "l", "s", "&", "h",
    "o", "s", "t", "=", "y">>

\* vless://w@g.io:443?type=ws&security=tls&host=z
OtherIdTie ==
    <<"v", "l", "e", "s", "s", ":", "/", "/", "w", "@", "g", ".", "i", "o",
    ":", "4", "4", "3", "?", "t", "y", "p", "e", "=", "w", "s", "&", "s",
    "e", "c", "u", "r", "i", "t", "y", "=", "t", "l", "s", "&", "h", "o",
    "s", "t", "=", "z">>

\* vless://z@h:443?type=tcp&security=tls
RejectedTcp ==
    <<"v", "l", "e", "s", "s", ":", "/", "/", "z", "@", "h", ":", "4", "4",
    "3", "?", "t", "y", "p", "e", "=", "t", "c", "p", "&", "s", "e", "c",
    "u", "r", "i", "t", "y", "=", "t", "l", "s">>

\* vless://h.io:8443?type=grpc&security=tls&serviceName=s
NoAtSign ==
    <<"v", "l", "e", "s", "s", ":", "/", "/", "h", ".", "i", "o", ":", "8",
    "4", "4", "3", "?", "t", "y", "p", "e", "=", "g", "r", "p", "c", "&",
    "s", "e", "c", "u", "r", "i", "t", "y", "=", "t", "l", "s", "&", "s",
    "e", "r", "v", "i", "c", "e", "N", "a", "m", "e", "=", "s">>

\* <a href="vless://u@h:443?type=ws&security=tls&host=example.com">x</a>\nvmess://abc 'vless://q'
HtmlPage ==
    <<"<", "a", " ", "h", "r", "e", "f", "=", "\"", "v", "l", "e", "s", "s",
    ":", "/", "/", "u", "@", "h", ":", "4", "4", "3", "?", "t", "y", "p",
    "e", "=", "w", "s", "&", "s", "e", "c", "u", "r", "i", "t", "y", "=",
    "t", "l", "s", "&", "h", "o", "s", "t", "=", "e", "x", "a", "m", "p",
    "l", "e", ".", "c", "o", "m", "\"", ">", "x", "<", "/", "a", ">",
    Chr(10), "v", "m", "e", "s", "s", ":", "/", "/", "a", "b", "c", " ", "'",
    "v", "l", "e", "s", "s", ":", "/", "/", "q", "'">>

\* hello
PlainText ==
    <<"h", "e", "l", "l", "o">>

\* dmxlc3M6Ly91QGg6NDQzP3R5cGU9d3Mmc2VjdXJpdHk9dGxzJmhvc3Q9ZXhhbXBsZS5jb20Kdm1lc3M6Ly9hYmM
B64Good ==
    <<"d", "m", "x", "l", "c", "3", "M", "6", "L", "y", "9", "1", "Q", "G",
    "g", "6", "N", "D", "Q", "z", "P", "3", "R", "5", "c", "G", "U", "9",
    "d", "3", "M", "m", "c", "2", "V", "j", "d", "X", "J", "p", "d", "H",
    "k", "9", "d", "G", "x", "z", "J", "m", "h", "v", "c", "3", "Q", "9",
    "Z", "X", "h", "h", "b", "X", "B", "s", "Z", "S", "5", "j", "b", "2",
    "0", "K", "d", "m", "1", "l", "c", "3", "M", "6", "L", "y", "9", "h",
    "Y", "m", "M">>

\* dm1lc3M6Ly9hYmMK\n
B64Padded ==
    <<"d", "m", "1", "l", "c", "3", "M", "6", "L", "y", "9", "h", "Y", "m",
    "M", "K", Chr(10)>>

\* /w
B64NotUtf8 ==
    <<"/", "w">>

\* dmxlc
B64BadLength ==
    <<"d", "m", "x", "l", "c">>

\* What a source may answer with.
Contents ==
    {GoodWs, GoodWs \o GoodGrpc, VmessDesc, HtmlPage, PlainText, B64Good,
     B64Padded, B64NotUtf8, B64BadLength, <<>>}

\* The descriptors the ranking stage is run on.
Descriptors ==
    {GoodWs, GoodGrpc, VmessDesc, SameIdIp, SameIdTie, OtherIdTie, RejectedTcp,
     NoAtSign}

\* The descriptors the scorer is run on: scheme, authority, up to MaxParams
\* query parameters, and a fragment or none.  The authorities: with and
\* without port, host or user; an IPv4 literal; the three dynamic-DNS
\* suffixes (one in upper case); a port that is no number, one out of range;
\* an unclosed bracket; an IPv6 literal.
Authorities ==
    {<<"u", "@", "h", ":", "4", "4", "3">>,
     <<"w", "@", "e", "x", "a", "m", "p", "l", "e", ".", "c", "o", "m">>,
     <<"u", "@", "1", ".", "2", ".", "3", ".", "4", ":", "4", "4", "3">>,
     <<"u", "@", "a", ".", "X", "Y", "Z", ":", "4", "4", "3">>,
     <<"u", "@", "b", ".", "d", "d", "n", "s", ".", "n", "e", "t", ":", "8", "0">>,
     <<"u", "@", "h", ":", "a", "b", "c">>,
     <<"u", "@", ":", "4", "4", "3">>,
     <<"u", "@", "h", ":", "7", "0", "0", "0", "0">>,
     <<"c", ".", "p", "w", ":", "8", "4", "4", "3">>,
     <<"u", "@", "[", "h", ":", "4", "4", "3">>,
     <<"u", "@", "[", ":", ":", "1", "]", ":", "0", "4", "4", "3">>}

ParamTexts ==
    {KeySecurity \o <<"=">> \o Tls,
     KeySecurity \o <<"=", "n", "o", "n", "e">>,
     KeyType \o <<"=">> \o Ws,
     KeyType \o <<"=">> \o Grpc,
     KeyHost \o <<"=", "e", "x", "a", "m", "p", "l", "e", ".", "c", "o", "m">>,
     KeyHost \o <<"=">>,
     KeySni \o <<"=", "s">>,
     KeyServiceName \o <<"=", "f", "o", "o">>}

\* The lists of up to MaxParams parameters, none written twice.
ParamLists ==
    UNION {{ps \in [1..n -> ParamTexts] : \A i, j \in 1..n : ps[i] = ps[j] => i = j} :
              n \in 0..MaxParams}

Fragments == {<<>>, <<"#", "t">>}

Assemble(scheme, authority, ps, fragment) ==
    scheme \o authority
        \o (IF ps = <<>> THEN <<>> ELSE <<"?">> \o Join(ps, <<"&">>))
        \o fragment

VlessInputs ==
    {Assemble(VlessPrefix, authority, ps, fragment) :
        authority \in Authorities, ps \in ParamLists, fragment \in Fragments}

\* Descriptors of the other scheme the pattern extracts, with parameters
\* that a vless descriptor is accepted with.
VmessInputs ==
    {Assemble(VmessPrefix, authority, ps, <<>>) :
        authority \in Authorities,
        ps \in [1..MaxParams ->
                   {p \in ParamTexts : After(p, <<"=">>) \notin {<<>>, <<"n", "o", "n", "e">>}}]}

ScoreInputs == VlessInputs \cup VmessInputs

(***************************************************************************)
(* main's ranking (lines 106-124) as functions of the order in which the   *)
(* set unique_configs is iterated.                                         *)
(***************************************************************************)
\* The orders in which a set can be iterated.
Orders(S) ==
    {o \in [1..Cardinality(S) -> S] :
        \A i, j \in 1..Cardinality(S) : o[i] = o[j] => i = j}

\* config.split('@')[0]
ServerId(config) == Before(config, <<"@">>)

\* Lines 106-113: the scored list, in iteration order.
ScoredConfigs(order) ==
    SelectSeq([k \in 1..Len(order) |->
                  [id |-> ServerId(order[k]),
                   score |-> score_and_filter_config(order[k]),
                   config |-> order[k]]],
              LAMBDA item : item.score > 0)

\* One step of a stable descending sort: x goes behind the items that score
\* at least as much.
InsertByScore(sorted, x) ==
    LET ahead == Cardinality({k \in 1..Len(sorted) : sorted[k].score >= x.score})
    IN  SubSeq(sorted, 1, ahead) \o <<x>> \o Tail1(sorted, ahead + 1)

\* The sort without reverse=True: ascending.
RECURSIVE SortByScore_Ascending(_)
SortByScore_Ascending(items) ==
    IF items = <<>> THEN <<>>
    ELSE LET sorted == SortByScore_Ascending(SubSeq(items, 1, Len(items) - 1))
             x == items[Len(items)]
             ahead == Cardinality({k \in 1..Len(sorted) :
                                      sorted[k].score <= x.score})
         IN  SubSeq(sorted, 1, ahead) \o <<x>> \o Tail1(sorted, ahead + 1)

\* Line 116: list.sort(key=score, reverse=True), which is stable.
RECURSIVE SortByScore(_)
SortByScore(items) ==
    IF items = <<>> THEN <<>>
    ELSE InsertByScore(SortByScore(SubSeq(items, 1, Len(items) - 1)),
                       items[Len(items)])

\* Lines 119-124: the walk that keeps the first item of each id.
RECURSIVE DedupWalk(_, _, _)
DedupWalk(items, final, seen) ==
    IF items = <<>> THEN [final_configs |-> final, seen_ids |-> seen]
    ELSE IF items[1].id \notin seen
    THEN DedupWalk(Tail(items), Append(final, items[1].config),
                   seen \cup {items[1].id})
    ELSE DedupWalk(Tail(items), final, seen)

\* The walk keeping the last item of each id instead of the first.
Dedupe_KeepLast(items) ==
    LET last == SelectSeq([k \in 1..Len(items) |->
                              [item |-> items[k],
                               keep |-> \A j \in (k + 1)..Len(items) :
                                            items[j].id # items[k].id]],
                          LAMBDA x : x.keep)
    IN  [final_configs |-> [k \in 1..Len(last) |-> last[k].item.config],
         seen_ids |-> {items[k].id : k \in 1..Len(items)}]

Dedupe(items) == DedupWalk(items, <<>>, {})

\* The final list of a run that iterates unique_configs in this order.
FinalOf(order) == Dedupe(SortByScore(ScoredConfigs(order))).final_configs

\* What one source's text adds to all_configs (lines 29-37).
Extracted(text) == Range(findall(Decoded(text)))

(***************************************************************************)
(* The program.                                                            *)
(***************************************************************************)
VARIABLES
    pc,              \* where main is
    sources,         \* the URLs read from SOURCES_FILE, named 1..n
    responses,       \* what each fetched source answered, in fetch order
    all_configs,     \* get_configs_from_sources's accumulating set
    unique_configs,  \* main's set of descriptors
    scored_configs,  \* main's list of {id, score, config}
    final_configs,   \* main's final list
    seen_ids,        \* main's set of ids already kept
    output_file,     \* OUTPUT_FILE as this run leaves it
    log,             \* the levels and places main has logged at
    config,          \* score_and_filter_config's argument
    score            \* score_and_filter_config's return value

vars == <<pc, sources, responses, all_configs, unique_configs, scored_configs,
          final_configs, seen_ids, output_file, log, config, score>>

NotWritten == [written |-> FALSE, text |-> <<>>]

NoScore == -1

Idle ==
    /\ sources = <<>>
    /\ responses = <<>>
    /\ all_configs = {}
    /\ unique_configs = {}
    /\ scored_configs = <<>>
    /\ final_configs = <<>>
    /\ seen_ids = {}
    /\ output_file = NotWritten
    /\ log = {}
    /\ config = <<>>
    /\ score = NoScore

Init == pc = "open" /\ Idle

\* Lines 93-95: SOURCES_FILE is read; its non-blank lines are the sources.
ReadSources ==
    /\ pc = "open"
    /\ \E n \in 0..MaxSources : sources' = [k \in 1..n |-> k]
    /\ pc' = "fetch"
    /\ UNCHANGED <<responses, all_configs, unique_configs, scored_configs,
                   final_configs, seen_ids, output_file, log, config, score>>

\* Lines 96-98: SOURCES_FILE does not exist; main logs an error and returns.
SourcesMissing ==
    /\ pc = "open"
    /\ log' = log \cup {"error: sources file not found"}
    /\ pc' = "done"
    /\ UNCHANGED <<sources, responses, all_configs, unique_configs,
                   scored_configs, final_configs, seen_ids, output_file,
                   config, score>>

\* Lines 24-37: the next source answers; its descriptors join all_configs.
FetchOk ==
    /\ pc = "fetch"
    /\ Len(responses) < Len(sources)
    /\ \E text \in Contents :
          /\ responses' = Append(responses,
                                 [url |-> sources[Len(responses) + 1],
                                  ok |-> TRUE, text |-> text])
          /\ all_configs' = all_configs \cup Extracted(text)
    /\ UNCHANGED <<pc, sources, unique_configs, scored_configs, final_configs,
                   seen_ids, output_file, log, config, score>>

\* FetchFail with the exception handled outside the loop: the first failure
\* ends the fetching.
FetchFail_Aborts ==
    /\ pc = "fetch"
    /\ Len(responses) < Len(sources)
    /\ responses' = Append(responses,
                           [url |-> sources[Len(responses) + 1],
                            ok |-> FALSE, text |-> <<>>])
    /\ log' = log \cup {"error: fetch failed"}
    /\ unique_configs' = all_configs
    /\ pc' = "score"
    /\ UNCHANGED <<sources, all_configs, scored_configs, final_configs,
                   seen_ids, output_file, config, score>>

\* Lines 27-28, 38-39: the request fails (transport error, timeout, error
\* status); the RequestException is logged and the loop goes on.
FetchFail ==
    /\ pc = "fetch"
    /\ Len(responses) < Len(sources)
    /\ responses' = Append(responses,
                           [url |-> sources[Len(responses) + 1],
                            ok |-> FALSE, text |-> <<>>])
    /\ log' = log \cup {"error: fetch failed"}
    /\ UNCHANGED <<pc, sources, all_configs, unique_configs, scored_configs,
                   final_configs, seen_ids, output_file, config, score>>

\* Lines 40, 101: the loop is over; main receives the set.
ReturnConfigs ==
    /\ pc = "fetch"
    /\ Len(responses) = Len(sources)
    /\ unique_configs' = all_configs
    /\ pc' = "score"
    /\ UNCHANGED <<sources, responses, all_configs, scored_configs,
                   final_configs, seen_ids, output_file, log, config, score>>

\* Lines 106-113: the set is iterated, in an order the program does not
\* choose, and the positive scores are listed.
ScoreConfigs ==
    /\ pc = "score"
    /\ \E order \in Orders(unique_configs) :
          scored_configs' = ScoredConfigs(order)
    /\ pc' = "sort"
    /\ UNCHANGED <<sources, responses, all_configs, unique_configs,
                   final_configs, seen_ids, output_file, log, config, score>>

\* Line 116
SortConfigs ==
    /\ pc = "sort"
    /\ scored_configs' = SortByScore(scored_configs)
    /\ pc' = "dedup"
    /\ UNCHANGED <<sources, responses, all_configs, unique_configs,
                   final_configs, seen_ids, output_file, log, config, score>>

\* Lines 119-124
DedupConfigs ==
    /\ pc = "dedup"
    /\ final_configs' = Dedupe(scored_configs).final_configs
    /\ seen_ids' = Dedupe(scored_configs).seen_ids
    /\ pc' = "output"
    /\ UNCHANGED <<sources, responses, all_configs, unique_configs,
                   scored_configs, output_file, log, config, score>>

\* WriteOutput without the else branch: an empty list ends the run silently.
WriteOutput_NoWarning ==
    /\ pc = "output"
    /\ IF final_configs # <<>>
       THEN output_file' = [written |-> TRUE,
                            text |-> Join(final_configs, <<"\n">>)]
       ELSE output_file' = output_file
    /\ pc' = "done"
    /\ UNCHANGED <<sources, responses, all_configs, unique_configs,
                   scored_configs, final_configs, seen_ids, log, config, score>>

\* Lines 128-133: the list is written, one descriptor per line, or the
\* warning is logged.
WriteOutput ==
    /\ pc = "output"
    /\ IF final_configs # <<>>
       THEN /\ output_file' = [written |-> TRUE,
                               text |-> Join(final_configs, <<"\n">>)]
            /\ log' = log
       ELSE /\ output_file' = output_file
            /\ log' = log \cup {"warning: no config passed"}
    /\ pc' = "done"
    /\ UNCHANGED <<sources, responses, all_configs, unique_configs,
                   scored_configs, final_configs, seen_ids, config, score>>

Next ==
    \/ ReadSources
    \/ SourcesMissing
    \/ FetchOk
    \/ FetchFail
    \/ ReturnConfigs
    \/ ScoreConfigs
    \/ SortConfigs
    \/ DedupConfigs
    \/ WriteOutput

Spec == Init /\ [][Next]_vars

\* main runs to its end: every step it can take, it takes.
FairSpec == Spec /\ WF_vars(Next)

(***************************************************************************)
(* The ranking of main (lines 106-133) on any set of up to MaxConfigs      *)
(* descriptors.                                                            *)
(***************************************************************************)
RankInit ==
    /\ pc = "score"
    /\ sources = <<>>
    /\ responses = <<>>
    /\ all_configs = {}
    /\ unique_configs \in {S \in SUBSET Descriptors : Cardinality(S) <= MaxConfigs}
    /\ scored_configs = <<>>
    /\ final_configs = <<>>
    /\ seen_ids = {}
    /\ output_file = NotWritten
    /\ log = {}
    /\ config = <<>>
    /\ score = NoScore

RankNext == ScoreConfigs \/ SortConfigs \/ DedupConfigs \/ WriteOutput

RankSpec == RankInit /\ [][RankNext]_vars

(***************************************************************************)
(* score_and_filter_config on the descriptors of ScoreInputs.              *)
(***************************************************************************)
ScoreInit ==
    /\ pc = "call"
    /\ sources = <<>>
    /\ responses = <<>>
    /\ all_configs = {}
    /\ unique_configs = {}
    /\ scored_configs = <<>>
    /\ final_configs = <<>>
    /\ seen_ids = {}
    /\ output_file = NotWritten
    /\ log = {}
    /\ config \in ScoreInputs
    /\ score = NoScore

\* Lines 42-89: the call returns.
Evaluate ==
    /\ pc = "call"
    /\ score' = score_and_filter_config(config)
    /\ pc' = "returned"
    /\ UNCHANGED <<sources, responses, all_configs, unique_configs,
                   scored_configs, final_configs, seen_ids, output_file, log,
                   config>>

ScoreNext == Evaluate

ScoreSpec == ScoreInit /\ [][ScoreNext]_vars

(***************************************************************************)
(* The claims.                                                             *)
(***************************************************************************)
\* The substrings the pattern matches in a text: each match in full.
FullMatches(text) ==
    LET content == Decoded(text)
        ms == ScanFrom(content, 1)
    IN  {Group0(content, ms[k]) : k \in 1..Len(ms)}

\* The answers of the sources fetched so far that did answer.
Answered == {responses[k].text : k \in {j \in 1..Len(responses) : responses[j].ok}}

\* C1: every element of the set the extraction returns is a full match of
\* the pattern in a fetched text: it begins with vless:// or vmess:// and
\* runs over the class characters that follow.
C1_ExtractedAreDescriptors ==
    \A c \in all_configs :
        /\ StartsWith(c, VlessPrefix) \/ StartsWith(c, VmessPrefix)
        /\ \E text \in Answered : c \in FullMatches(text)

\* C2: when a source's text is two descriptors concatenated with nothing
\* between them, both are elements of the extracted set.
C2_AdjacentDescriptorsSeparated ==
    \A text \in Answered :
        \A d1, d2 \in Descriptors :
            text = d1 \o d2 => d1 \in all_configs /\ d2 \in all_configs

\* The query parameters of a descriptor, as the scorer reads them.
ParamsOf(c) == parse_qsl(urlparse(c).query)

\* Parameters that pass the reject rules on them: security=tls, type ws or
\* grpc, serviceName for grpc, host for ws.
RulesOnParams(params) ==
    /\ GetFirst(params, KeySecurity) = Tls
    /\ \/ /\ GetFirst(params, KeyType) = Ws
          /\ GetFirst(params, KeyHost) # <<>>
       \/ /\ GetFirst(params, KeyType) = Grpc
          /\ GetFirst(params, KeyServiceName) # <<>>

\* The port text is empty (no port) or a decimal number up to 65535.
PortReadable(port) ==
    port = <<>> \/ (Range(port) \subseteq Digits /\ ToInt(port) <= 65535)

\* 10, +10 for port 443, +20 for a host name that is neither a dotted quad
\* nor of a free dynamic-DNS suffix, +5 for a non-empty sni or host.
ClaimedScore(host, port, params) ==
    10
    + (IF port # <<>> /\ Range(port) \subseteq Digits /\ ToInt(port) = 443
       THEN 10 ELSE 0)
    + (IF /\ host # <<>>
          /\ ~IsDottedQuad(host)
          /\ \A ddns \in DdnsNames : ~Contains(host, ddns)
       THEN 20 ELSE 0)
    + (IF GetFirst(params, KeySni) # <<>> \/ GetFirst(params, KeyHost) # <<>>
       THEN 5 ELSE 0)

\* C3 as stated: every descriptor that passes the reject rules (the vless
\* scheme, a URL that parses, the rules on the parameters) scores exactly
\* the sum of the base score and the bonuses that apply.
C3_PassingScoresTheSum ==
    pc = "returned" =>
        LET u == urlparse(config)
            params == parse_qsl(u.query)
        IN  StartsWith(config, VlessPrefix) /\ u.ok /\ RulesOnParams(params)
                => score = ClaimedScore(Hostname(u.netloc),
                                        HostInfo(u.netloc).port, params)

\* C3 as amended: a descriptor that passes the reject rules scores exactly
\* the sum when its port is absent or a decimal number up to 65535, and 0
\* otherwise; the documented example scores 45.
C3_PassingScoresTheSumOrPortError ==
    pc = "returned" =>
        LET u == urlparse(config)
            params == parse_qsl(u.query)
            port == HostInfo(u.netloc).port
        IN  /\ StartsWith(config, VlessPrefix) /\ u.ok /\ RulesOnParams(params)
                   => IF PortReadable(port)
                      THEN score = ClaimedScore(Hostname(u.netloc), port, params)
                      ELSE score = 0
            /\ config = GoodWs => score = 45

\* C3's case: the documented example has been scored.
C3_Witness == pc = "returned" /\ config = GoodWs /\ score = 45

\* C4: a score above 0 is returned only for a vless descriptor with
\* security=tls, an explicit type of ws or grpc, a serviceName when grpc and
\* a host when ws; every other call returns 0, and a call always returns.
C4_PositiveOnlyIfAccepted ==
    pc = "returned" =>
        LET params == ParamsOf(config)
            transport == GetFirst(params, KeyType)
        IN  /\ score \in Nat
            /\ score > 0 =>
                   /\ StartsWith(config, VlessPrefix)
                   /\ GetFirst(params, KeySecurity) = Tls
                   /\ transport \in {Ws, Grpc}
                   /\ transport = Grpc => GetFirst(params, KeyServiceName) # <<>>
                   /\ transport = Ws => GetFirst(params, KeyHost) # <<>>
            /\ ~(StartsWith(config, VlessPrefix) /\ RulesOnParams(params))
                   => score = 0

\* C4's case: the scorer has accepted a grpc descriptor.
C4_Witness ==
    /\ pc = "returned"
    /\ score > 0
    /\ GetFirst(ParamsOf(config), KeyType) = Grpc

\* The positively scored descriptors of the run and their identities.
Positive == {c \in unique_configs : score_and_filter_config(c) > 0}

SharingId(id) == {c \in Positive : ServerId(c) = id}

\* C5: after deduplication the final list holds exactly one descriptor of
\* each identity that occurs among the positively scored descriptors, and
\* its score is the highest of that identity.
C5_OneBestPerIdentity ==
    pc \in {"output", "done"} =>
        \A id \in {ServerId(c) : c \in Positive} :
            /\ Cardinality({k \in 1..Len(final_configs) :
                               ServerId(final_configs[k]) = id}) = 1
            /\ \A k \in 1..Len(final_configs) :
                   ServerId(final_configs[k]) = id =>
                       /\ final_configs[k] \in SharingId(id)
                       /\ \A c \in SharingId(id) :
                              score_and_filter_config(final_configs[k])
                                  >= score_and_filter_config(c)

\* C5's case: one identity with scores 45 and 25; the 45 survives.
C5_Witness ==
    /\ pc = "done"
    /\ {GoodWs, SameIdIp} \subseteq unique_configs
    /\ GoodWs \in Range(final_configs)
    /\ SameIdIp \notin Range(final_configs)

DecodeFails(text) ==
    LET padded == text \o Pad((4 - (Len(text) % 4)) % 4)
    IN  /\ ~Contains(text, VmessPrefix)
        /\ ~Contains(text, VlessPrefix)
        /\ \/ ~b64decode(padded).ok
           \/ ~Utf8(b64decode(padded).bytes, 1, <<>>).ok

\* C7: the sources are fetched in input order, each one whether or not the
\* ones before it failed; the set is the union of what the sources that
\* answered yielded; a source whose text fails to decode yields nothing.
C7_FailuresAreLocal ==
    /\ \A k \in 1..Len(responses) : responses[k].url = sources[k]
    /\ pc \in {"score", "sort", "dedup", "output"} => Len(responses) = Len(sources)
    /\ all_configs = UNION {Extracted(text) : text \in Answered}
    /\ \A text \in Answered : DecodeFails(text) => Extracted(text) = {}

\* C7's case: the first source failed, the second was fetched and its
\* descriptors are in the set.
C7_Witness ==
    /\ pc = "score"
    /\ Len(responses) = 2
    /\ ~responses[1].ok
    /\ responses[2].ok
    /\ responses[2].text = B64Good
    /\ all_configs # {}

Warned == "warning: no config passed" \in log

Wrote == output_file.written /\ output_file.text # <<>>

C9_SortedAndPositive ==
    pc \in {"output", "done"} =>
        /\ \A i, j \in 1..Len(final_configs) :
               i < j => score_and_filter_config(final_configs[i])
                            >= score_and_filter_config(final_configs[j])
        /\ \A i \in 1..Len(final_configs) :
               score_and_filter_config(final_configs[i]) > 0

\* C9's case: a final list of several descriptors of different scores.
C9_Witness ==
    /\ pc = "done"
    /\ Len(final_configs) >= 2
    /\ score_and_filter_config(final_configs[1])
           > score_and_filter_config(final_configs[Len(final_configs)])
    /\ unique_configs # Range(final_configs)

\* C10: when the text of a source that answered holds a descriptor that
\* scores above 0, the finished run has written the list, and the list
\* holds a descriptor of that identity that scores at least as much.
C10_AcceptedDescriptorsAreWritten ==
    pc = "done" =>
        \A text \in Answered :
            \A d \in FullMatches(text) :
                score_and_filter_config(d) > 0 =>
                    /\ output_file.written
                    /\ \E k \in 1..Len(final_configs) :
                           /\ ServerId(final_configs[k]) = ServerId(d)
                           /\ score_and_filter_config(final_configs[k])
                                  >= score_and_filter_config(d)

=============================================================================
